---------------------------- MODULE Spec2Model ----------------------------
(***************************************************************************)
(* Model of notebooks/mesa_reader.py: the MesaInfo loader (path            *)
(* resolution, header and column-name decoding, numpy.loadtxt, the          *)
(* backward clean-up of restarted history logs) and the accessors built on  *)
(* AttributeMapper.                                                         *)
(*                                                                          *)
(* Conventions.  A string is a sequence of words, so that appending '.gz'   *)
(* and the test 'history' in fname are operations on sequences.  A text     *)
(* line is the sequence of its whitespace-separated tokens.  A number read  *)
(* by loadtxt is a float; it is held as a count of halves (3 is 1.5), so    *)
(* that int() is a real truncation.  A numpy array is a record              *)
(* [ndim, v]: a 0-d array holds one value, a 1-d array a sequence.          *)
(***************************************************************************)
EXTENDS Integers, Sequences, FiniteSets, TLC

VARIABLES
    filename,    \* the argument of MesaInfo(filename)
    disk,        \* which of filename and filename + '.gz' are files
    content,     \* the text of the log, line by line
    status,      \* "new", "loaded", or "failed" (the constructor raised)
    fname,       \* self.fname
    is_gzip,     \* __init__'s is_gzip
    is_history,  \* __init__'s is_history
    header,      \* self.header
    col_names,   \* __init__'s col_names
    data_dict,   \* self.data_dict
    last         \* the last call made on the object and its outcome

vars == <<filename, disk, content, status, fname, is_gzip, is_history,
          header, col_names, data_dict, last>>

Range(s) == {s[i] : i \in DOMAIN s}

Null == <<>>

(***************************************************************************)
(* Bounds and input sets                                                   *)
(***************************************************************************)
MaxRows == 3

\* model_number values offered to the restart clean-up, in halves:
\* 1.0, 1.5, 2.0, 3.0
StepVals == {2, 3, 4, 6}

\* the restart scenario 1,2,3,4,2,3,4,5,6 and a doubly nested restart
\* 1,2,3,4,3,4,2,3,5
ScenarioSteps == <<2, 4, 6, 8, 4, 6, 8, 10, 12>>
NestedSteps == <<2, 4, 6, 8, 6, 8, 4, 6, 10>>

RECURSIVE SeqsUpTo(_, _)
SeqsUpTo(S, n) ==
    IF n = 0 THEN {<<>>}
    ELSE LET shorter == SeqsUpTo(S, n - 1)
         IN  shorter \cup {Append(s, x) : s \in {t \in shorter : Len(t) = n - 1}, x \in S}

StepSeqs == SeqsUpTo(StepVals, MaxRows) \cup {ScenarioSteps, NestedSteps}

Widths == {1, 2, 3}

\* the value of data column c (c >= 2) on data line r: it names its line
LineTag(r, c) == 2 * (10 * c + r)

\* data lines of width w whose first column is steps
Rows(steps, w) ==
    [r \in 1..Len(steps) |->
        [c \in 1..w |-> IF c = 1 THEN steps[r] ELSE LineTag(r, c)]]

\* the same lines with the last token of the last line missing
Truncated(rows) ==
    [r \in 1..Len(rows) |->
        IF r = Len(rows) THEN [c \in 1..(Len(rows[r]) - 1) |-> rows[r][c]] ELSE rows[r]]

Schemas == { <<"model_number", "star_age">>,
             <<"star_age", "model_number">>,
             <<"star_age", "star_mass">>,
             <<"model_number">> }

HeaderNames == <<"version_number", "initial_mass">>
HeaderValueLines == { <<"11701">>, <<"11701", "20.0">>, <<"11701", "20.0", "0.02">> }

RegularContents ==
    { [hnames |-> HeaderNames, hvalues |-> hv, cnames |-> cn, rows |-> Rows(s, w)] :
        hv \in HeaderValueLines, cn \in Schemas, s \in StepSeqs, w \in Widths }

RaggedContents ==
    { [hnames |-> HeaderNames, hvalues |-> <<"11701", "20.0">>,
       cnames |-> <<"model_number", "star_age">>, rows |-> Truncated(Rows(s, 2))] :
        s \in {t \in StepSeqs : Len(t) \in 2..MaxRows} }

Contents == RegularContents \cup RaggedContents

Filenames == { <<"LOGS", "/", "history", ".data">>,
               <<"LOGS", "/", "profile", "5", ".data">>,
               <<"history", "_runs", "/", "profile", "5", ".data">> }

Disks == [plain : BOOLEAN, gz : BOOLEAN]

(***************************************************************************)
(* Path resolution and kind                                                *)
(***************************************************************************)
\* Path(p).is_file()
IsFile(fn, dk, p) ==
    \/ p = fn /\ dk.plain
    \/ p = Append(fn, ".gz") /\ dk.gz

\* ResolvePath trying the '.gz' path before the exact one
ResolvePathGzFirst(fn, dk) ==
    IF IsFile(fn, dk, Append(fn, ".gz"))
    THEN [exc |-> "", fname |-> Append(fn, ".gz"), is_gzip |-> TRUE]
    ELSE IF IsFile(fn, dk, fn)
         THEN [exc |-> "", fname |-> fn, is_gzip |-> FALSE]
         ELSE [exc |-> "FileNotFoundError", fname |-> Null, is_gzip |-> FALSE]

\* lines 76-85: the exception raised, or the path opened and whether it is
\* gzipped
ResolvePath(fn, dk) ==
    IF IsFile(fn, dk, fn)
    THEN [exc |-> "", fname |-> fn, is_gzip |-> FALSE]
    ELSE IF IsFile(fn, dk, Append(fn, ".gz"))
         THEN [exc |-> "", fname |-> Append(fn, ".gz"), is_gzip |-> TRUE]
         ELSE [exc |-> "FileNotFoundError", fname |-> Null, is_gzip |-> FALSE]

\* needle in hay, for sequences of words
Contains(hay, needle) ==
    \E i \in 0..(Len(hay) - Len(needle)) :
        \A k \in 1..Len(needle) : hay[i + k] = needle[k]

\* 'history' in self.fname
IsHistory(path) == Contains(path, <<"history">>)

(***************************************************************************)
(* Header                                                                  *)
(***************************************************************************)
\* line 110: for i, name in enumerate(header_names):
\*               self.header[name] = header_values[i]
\* A later duplicate of a name overwrites the earlier one; a name with no
\* value at its position raises IndexError.
ZipHeader(header_names, header_values) ==
    IF Len(header_values) < Len(header_names)
    THEN [exc |-> "IndexError", header |-> Null]
    ELSE [exc |-> "",
          header |-> [n \in Range(header_names) |->
                        LET i == CHOOSE j \in DOMAIN header_names :
                                    /\ header_names[j] = n
                                    /\ \A k \in DOMAIN header_names :
                                            header_names[k] = n => k <= j
                        IN  header_values[i]]]

(***************************************************************************)
(* numpy                                                                   *)
(***************************************************************************)
Arr0(x) == [ndim |-> 0, v |-> <<x>>]
Arr1(s) == [ndim |-> 1, v |-> s]

\* np.loadtxt(self.fname, skiprows=6, unpack=True), ndmin = 0: the N x W
\* matrix of the data lines, squeezed (every axis of length 1 dropped) and
\* transposed.  items is what indexing along the first axis gives.
\*   N >= 2, W >= 2: shape (W, N), item c is column c
\*   N = 1,  W >= 2: shape (W,),   item c is the number in column c
\*   N >= 2, W = 1:  shape (N,),   item r is the number on line r
\*   N = 1,  W = 1:  shape (),     no item
\*   N = 0:          shape (0,),   no item
\* Lines of different lengths raise ValueError.
LoadTxt(rows) ==
    LET N == Len(rows)
        W == IF N = 0 THEN 0 ELSE Len(rows[1])
    IN  IF \E r \in 1..N : Len(rows[r]) # W
        THEN [exc |-> "ValueError", ndim |-> 0, items |-> <<>>]
        ELSE IF N = 0
        THEN [exc |-> "", ndim |-> 1, items |-> <<>>]
        ELSE IF N = 1 /\ W = 1
        THEN [exc |-> "", ndim |-> 0, items |-> <<>>]
        ELSE IF N = 1
        THEN [exc |-> "", ndim |-> 1, items |-> [c \in 1..W |-> Arr0(rows[1][c])]]
        ELSE IF W = 1
        THEN [exc |-> "", ndim |-> 1, items |-> [r \in 1..N |-> Arr0(rows[r][1])]]
        ELSE [exc |-> "", ndim |-> 2,
              items |-> [c \in 1..W |-> Arr1([r \in 1..N |-> rows[r][c]])]]

\* line 127: for i, name in enumerate(col_names):
\*               self.data_dict[name] = np.array(file_data[i])
\* file_data[i] raises IndexError on a 0-d array and past the first axis.
FillDataDict(names, file_data) ==
    IF names # <<>> /\ (file_data.ndim = 0 \/ Len(names) > Len(file_data.items))
    THEN [exc |-> "IndexError", data_dict |-> Null]
    ELSE [exc |-> "",
          data_dict |-> [n \in Range(names) |->
                            LET i == CHOOSE j \in DOMAIN names :
                                        /\ names[j] = n
                                        /\ \A k \in DOMAIN names : names[k] = n => k <= j
                            IN  file_data.items[i]]]

(***************************************************************************)
(* Clean-up of a restarted history                                         *)
(***************************************************************************)
\* int(x) of a float held in halves: truncation toward zero
IntOf(x) == IF x >= 0 THEN x \div 2 ELSE -((-x) \div 2)

\* MaskScan with > for >=: a row equal to the running last_model is kept
RECURSIVE MaskScanStrict(_, _, _, _)
MaskScanStrict(models_number, i, last_model, mask) ==
    IF i < 1 THEN mask
    ELSE IF IntOf(models_number[i]) > last_model
         THEN MaskScanStrict(models_number, i - 1, last_model, [mask EXCEPT ![i] = 1])
         ELSE MaskScanStrict(models_number, i - 1, IntOf(models_number[i]), mask)

\* MaskScan without line 148: last_model stays the last row's
RECURSIVE MaskScanNoUpdate(_, _, _, _)
MaskScanNoUpdate(models_number, i, last_model, mask) ==
    IF i < 1 THEN mask
    ELSE IF IntOf(models_number[i]) >= last_model
         THEN MaskScanNoUpdate(models_number, i - 1, last_model, [mask EXCEPT ![i] = 1])
         ELSE MaskScanNoUpdate(models_number, i - 1, last_model, mask)

\* lines 144-148: the loop body for index i (1-based here), from
\* len(models_number) - 1 down to 1
RECURSIVE MaskScan(_, _, _, _)
MaskScan(models_number, i, last_model, mask) ==
    IF i < 1 THEN mask
    ELSE IF IntOf(models_number[i]) >= last_model
         THEN MaskScan(models_number, i - 1, last_model, [mask EXCEPT ![i] = 1])
         ELSE MaskScan(models_number, i - 1, IntOf(models_number[i]), mask)

\* lines 142-148, for a 1-d models_number of at least one element
Mask(models_number) ==
    LET n == Len(models_number)
    IN  MaskScan(models_number, n - 1, IntOf(models_number[n]), [i \in 1..n |-> 0])

\* np.ma.masked_array(a, mask=mask).compressed(): the unmasked elements of
\* a, in order
RECURSIVE CompressedFrom(_, _, _)
CompressedFrom(a, mask, i) ==
    IF i > Len(a) THEN <<>>
    ELSE IF mask[i] = 0
         THEN <<a[i]>> \o CompressedFrom(a, mask, i + 1)
         ELSE CompressedFrom(a, mask, i + 1)

Compressed(a, mask) == CompressedFrom(a, mask, 1)

\* ApplyMask filtering the ordering column only
ApplyMaskOrderingOnly(names, dd, mask) ==
    [n \in DOMAIN dd |->
        IF n = "model_number" THEN Arr1(Compressed(dd[n].v, mask)) ELSE dd[n]]

\* lines 150-151: every column named in col_names is filtered by the mask
ApplyMask(names, dd, mask) ==
    [n \in DOMAIN dd |->
        IF n \in Range(names) THEN Arr1(Compressed(dd[n].v, mask)) ELSE dd[n]]

\* CleanHistory skipping the clean-up when there is no model_number column
CleanHistorySkip(names, dd) ==
    IF "model_number" \notin DOMAIN dd
    THEN [exc |-> "", data_dict |-> dd]
    ELSE IF dd["model_number"].ndim = 0 \/ dd["model_number"].v = <<>>
    THEN [exc |-> "IndexError", data_dict |-> Null]
    ELSE [exc |-> "",
          data_dict |-> ApplyMask(names, dd, Mask(dd["model_number"].v))]

\* lines 129-151
CleanHistory(names, dd) ==
    IF "model_number" \notin DOMAIN dd
    THEN [exc |-> "KeyError", data_dict |-> Null]
    ELSE IF dd["model_number"].ndim = 0 \/ dd["model_number"].v = <<>>
    THEN [exc |-> "IndexError", data_dict |-> Null]
    ELSE [exc |-> "",
          data_dict |-> ApplyMask(names, dd, Mask(dd["model_number"].v))]

(***************************************************************************)
(* MesaInfo.__init__                                                       *)
(***************************************************************************)
Failed(exc) ==
    [exc |-> exc, fname |-> Null, is_gzip |-> FALSE, is_history |-> FALSE,
     header |-> Null, col_names |-> Null, data_dict |-> Null]

\* lines 74-151.  An exception leaves no object: the fields are Null.
LoadResult(fn, dk, c) ==
    LET path == ResolvePath(fn, dk) IN
    IF path.exc # "" THEN Failed(path.exc) ELSE
    LET hist == IsHistory(path.fname)
        hdr  == ZipHeader(c.hnames, c.hvalues) IN
    IF hdr.exc # "" THEN Failed(hdr.exc) ELSE
    LET file_data == LoadTxt(c.rows) IN
    IF file_data.exc # "" THEN Failed(file_data.exc) ELSE
    LET filled == FillDataDict(c.cnames, file_data) IN
    IF filled.exc # "" THEN Failed(filled.exc) ELSE
    LET cleaned == IF hist THEN CleanHistory(c.cnames, filled.data_dict)
                   ELSE [exc |-> "", data_dict |-> filled.data_dict] IN
    IF cleaned.exc # "" THEN Failed(cleaned.exc) ELSE
    [exc |-> "", fname |-> path.fname, is_gzip |-> path.is_gzip, is_history |-> hist,
     header |-> hdr.header, col_names |-> c.cnames, data_dict |-> cleaned.data_dict]

\* Python's None, as the value of a call that returned nothing or raised
None == [ndim |-> -1, v |-> <<>>]

NoCall == [op |-> "", arg |-> "", exc |-> "", val |-> None]

Init ==
    /\ filename \in Filenames
    /\ disk \in Disks
    /\ content \in Contents
    /\ status = "new"
    /\ fname = Null
    /\ is_gzip = FALSE
    /\ is_history = FALSE
    /\ header = Null
    /\ col_names = Null
    /\ data_dict = Null
    /\ last = NoCall

\* MesaInfo(filename)
Load ==
    /\ status = "new"
    /\ LET r == LoadResult(filename, disk, content)
       IN  /\ status' = IF r.exc = "" THEN "loaded" ELSE "failed"
           /\ fname' = r.fname
           /\ is_gzip' = r.is_gzip
           /\ is_history' = r.is_history
           /\ header' = r.header
           /\ col_names' = r.col_names
           /\ data_dict' = r.data_dict
           /\ last' = [op |-> "__init__", arg |-> "", exc |-> r.exc, val |-> None]
    /\ UNCHANGED <<filename, disk, content>>

(***************************************************************************)
(* Accessors                                                               *)
(***************************************************************************)
\* names given to get and to the attributes of data
AttrArgs == {"model_number", "no_such_column"}

\* values assigned through data
SetValues == {Arr1(<<>>)}

\* the methods class AttributeMapper defines (lines 27-47)
AttributeMapperMethods == {"__init__", "__getattr__", "__setattr__", "__dir__"}

\* lines 30-38: AttributeMapper(d).attr; no column is itself a dict
MapperGetAttr(d, attr) ==
    IF attr \in DOMAIN d
    THEN [exc |-> "", val |-> d[attr]]
    ELSE [exc |-> "AttributeError", val |-> None]

\* MapperSetAttr creating the entry of a name that is no column
MapperSetAttrCreates(d, attr, value) ==
    [exc |-> "", data |-> (attr :> value) @@ d]

\* lines 40-44: AttributeMapper(d).attr = value; d is self.data_dict itself
MapperSetAttr(d, attr, value) ==
    IF attr \in DOMAIN d
    THEN [exc |-> "", data |-> [d EXCEPT ![attr] = value]]
    ELSE [exc |-> "NotImplementedError", data |-> d]

\* AttributeMapper(d)[arg]: Python looks __getitem__ up on the class and
\* raises TypeError when the class does not define it
MapperSubscript(d, arg) ==
    IF "__getitem__" \in AttributeMapperMethods
    THEN IF arg \in DOMAIN d
         THEN [exc |-> "", val |-> d[arg]]
         ELSE [exc |-> "KeyError", val |-> None]
    ELSE [exc |-> "TypeError", val |-> None]

\* lines 159-171: get(arg) is self.data[arg]
Get(arg) ==
    /\ status = "loaded"
    /\ LET r == MapperSubscript(data_dict, arg)
       IN  last' = [op |-> "get", arg |-> arg, exc |-> r.exc, val |-> r.val]
    /\ UNCHANGED <<filename, disk, content, status, fname, is_gzip, is_history,
                   header, col_names, data_dict>>

\* obj.data.attr
GetAttr(attr) ==
    /\ status = "loaded"
    /\ LET r == MapperGetAttr(data_dict, attr)
       IN  last' = [op |-> "getattr", arg |-> attr, exc |-> r.exc, val |-> r.val]
    /\ UNCHANGED <<filename, disk, content, status, fname, is_gzip, is_history,
                   header, col_names, data_dict>>

\* obj.data.attr = value
SetAttr(attr, value) ==
    /\ status = "loaded"
    /\ LET r == MapperSetAttr(data_dict, attr, value)
       IN  /\ data_dict' = r.data
           /\ last' = [op |-> "setattr", arg |-> attr, exc |-> r.exc, val |-> value]
    /\ UNCHANGED <<filename, disk, content, status, fname, is_gzip, is_history,
                   header, col_names>>

Next ==
    \/ Load
    \/ \E a \in AttrArgs : Get(a)
    \/ \E a \in AttrArgs : GetAttr(a)
    \/ \E a \in AttrArgs, x \in SetValues : SetAttr(a, x)

Spec == Init /\ [][Next]_vars

(***************************************************************************)
(* Vocabulary of the properties                                            *)
(***************************************************************************)
\* the state right after MesaInfo(filename) returned an object
JustLoaded == status = "loaded" /\ last.op = "__init__"

\* the constructor was called and found a file to read
Resolved == status # "new" /\ (disk.plain \/ disk.gz)

\* the path the constructor reads when one exists
PathRead == IF disk.plain THEN filename ELSE Append(filename, ".gz")

\* the exceptions by which a load fails on the text of the file
ParseErrors == {"IndexError", "KeyError", "ValueError"}

\* the exceptions that say a name is absent
NotFoundErrors == {"AttributeError", "KeyError"}

RawCount == Len(content.rows)

\* every data line has as many tokens as there are column names
Rectangular == \A r \in 1..RawCount : Len(content.rows[r]) = Len(content.cnames)

Pos(names, n) == CHOOSE i \in DOMAIN names : names[i] = n

\* column c of the file, top to bottom
RawColumn(c) == [r \in 1..RawCount |-> content.rows[r][c]]

\* the step counters of the file: the model_number of each data line
RawSteps == RawColumn(Pos(content.cnames, "model_number"))

\* the step counter the clean-up reads on a line: the integer int() gives
Step(x) == IntOf(x)

\* the lines not superseded: strictly below every later line
NotSuperseded(steps) ==
    {i \in 1..Len(steps) : \A j \in (i + 1)..Len(steps) : Step(steps[i]) < Step(steps[j])}

\* the elements of a set of indices, ascending
Ascending(S) ==
    [k \in 1..Cardinality(S) |-> CHOOSE i \in S : Cardinality({j \in S : j < i}) = k - 1]

Pick(s, idx) == [k \in 1..Len(idx) |-> s[idx[k]]]

\* the words of a path after its last "/"
BaseName(path) ==
    LET slashes == {i \in DOMAIN path : path[i] = "/"}
        from == IF slashes = {} THEN 1
                ELSE 1 + CHOOSE i \in slashes : \A j \in slashes : j <= i
    IN  [k \in 1..(Len(path) - from + 1) |-> path[from + k - 1]]

\* a log as MESA writes it: paired header lines, a rectangular table of at
\* least two lines and two columns
WellFormed ==
    /\ Len(content.hvalues) = Len(content.hnames)
    /\ Rectangular
    /\ RawCount >= 2
    /\ Len(content.cnames) >= 2

TableAtLoad == LoadResult(filename, disk, content).data_dict
HeaderAtLoad == LoadResult(filename, disk, content).header

(***************************************************************************)
(* C1                                                                      *)
(***************************************************************************)
\* C1: after every successful load of a history-kind file the model_number
\* column is strictly increasing when read forward, and its last element is
\* the model_number of the last data line of the file.
C1_StrictlyIncreasing ==
    (JustLoaded /\ is_history) =>
        LET mn == data_dict["model_number"]
        IN  /\ mn.ndim = 1
            /\ mn.v # <<>>
            /\ \A i \in 1..(Len(mn.v) - 1) : mn.v[i] < mn.v[i + 1]
            /\ mn.v[Len(mn.v)] = RawSteps[RawCount]

\* a history with exact duplicates and nested restarts was loaded and lost
\* lines
C1_Witness ==
    /\ JustLoaded /\ is_history
    /\ content.cnames[1] = "model_number"
    /\ RawSteps = NestedSteps
    /\ data_dict["model_number"].v = <<2, 4, 6, 10>>

(***************************************************************************)
(* C2                                                                      *)
(***************************************************************************)
\* C2: the clean-up keeps exactly the lines that are not superseded: line i
\* is kept if and only if its step counter is strictly smaller than the step
\* counter of every later line.  For the steps 1,2,3,4,2,3,4,5,6 the lines
\* kept are the 1st and the 5th to 9th, with steps 1,2,3,4,5,6.
C2_KeepsNotSuperseded ==
    (JustLoaded /\ is_history) =>
        /\ data_dict["model_number"].v = Pick(RawSteps, Ascending(NotSuperseded(RawSteps)))
        /\ RawSteps = ScenarioSteps =>
            /\ data_dict["model_number"].v = <<2, 4, 6, 8, 10, 12>>
            /\ \A n \in DOMAIN data_dict :
                 data_dict[n].v =
                    Pick(RawColumn(Pos(content.cnames, n)), <<1, 5, 6, 7, 8, 9>>)

\* the scenario was loaded as a history and kept six lines, the second of
\* them the 5th line of the file
C2_Witness ==
    /\ JustLoaded /\ is_history
    /\ content.cnames = <<"model_number", "star_age">>
    /\ RawSteps = ScenarioSteps
    /\ Len(data_dict["star_age"].v) = 6
    /\ data_dict["star_age"].v[2] = LineTag(5, 2)

(***************************************************************************)
(* C3                                                                      *)
(***************************************************************************)
\* C3: a file whose header-name line and header-value line hold different
\* numbers of tokens fails to load with a parse error, with fewer values
\* than names and with more; a loaded header pairs every value with a name.
C3_HeaderMismatchFails ==
    (Resolved /\ Len(content.hvalues) # Len(content.hnames)) =>
        /\ status = "failed"
        /\ last.exc \in ParseErrors

(***************************************************************************)
(* C4                                                                      *)
(***************************************************************************)
\* C4: on a loaded file, get(name) returns the column of that name when
\* there is one and fails with a not-found error when there is none.
C4_GetReturnsColumn ==
    (status = "loaded" /\ last.op = "get") =>
        IF last.arg \in DOMAIN data_dict
        THEN last.exc = "" /\ last.val = data_dict[last.arg]
        ELSE last.exc \in NotFoundErrors

C6_ResolutionOrder ==
    status # "new" =>
        IF disk.plain
        THEN /\ last.exc # "FileNotFoundError"
             /\ status = "loaded" => (fname = filename /\ ~is_gzip)
        ELSE IF disk.gz
        THEN /\ last.exc # "FileNotFoundError"
             /\ status = "loaded" => (fname = Append(filename, ".gz") /\ is_gzip)
             /\ (WellFormed /\ (IsHistory(PathRead) => "model_number" \in Range(content.cnames)))
                    => status = "loaded"
        ELSE /\ status = "failed"
             /\ last.exc = "FileNotFoundError"
             /\ data_dict = Null /\ header = Null /\ fname = Null

\* only the '.gz' path exists and the log was loaded from it
C6_Witness ==
    /\ ~disk.plain /\ disk.gz
    /\ status = "loaded"
    /\ fname = Append(filename, ".gz") /\ is_gzip
    /\ RawCount >= 2

(***************************************************************************)
(* C7                                                                      *)
(***************************************************************************)
\* C7, for well-formed logs: a file whose name does not contain 'history'
\* loses no row: every column has as many rows as the file has data lines,
\* whatever the directory the file is in.
C7_ProfileKeepsAllRows ==
    (JustLoaded /\ WellFormed /\ ~Contains(BaseName(filename), <<"history">>)) =>
        \A n \in DOMAIN data_dict : Len(data_dict[n].v) = RawCount

(***************************************************************************)
(* C8                                                                      *)
(***************************************************************************)
\* C8: a history-kind file with paired header lines and a model_number
\* column whose table has no row or one row loads, and every column holds
\* that one row or none.
C8_ShortHistoryLoads ==
    (/\ Resolved
     /\ IsHistory(PathRead)
     /\ Len(content.hvalues) = Len(content.hnames)
     /\ Rectangular
     /\ "model_number" \in Range(content.cnames)
     /\ RawCount <= 1) =>
        /\ status = "loaded"
        /\ \A n \in DOMAIN data_dict :
              data_dict[n].v = RawColumn(Pos(content.cnames, n))

(***************************************************************************)
(* C9                                                                      *)
(***************************************************************************)
\* C9: a history-kind file with no model_number among its column names
\* fails to load with a parse error; no table is returned.
C9_MissingOrderingFails ==
    (Resolved /\ IsHistory(PathRead) /\ "model_number" \notin Range(content.cnames)) =>
        /\ status = "failed"
        /\ last.exc \in ParseErrors
        /\ data_dict = Null

\* the load of a well-formed history without model_number got as far as the
\* clean-up and failed there
C9_Witness ==
    /\ Resolved /\ IsHistory(PathRead)
    /\ WellFormed
    /\ "model_number" \notin Range(content.cnames)
    /\ status = "failed" /\ last.exc = "KeyError"

(***************************************************************************)
(* C10                                                                     *)
(***************************************************************************)
\* C10: after a successful load all columns have the same shape and
\* length; in a history-kind file the lines kept are decided by the
\* model_number column alone and are the same for every column: row k of
\* each column is the value that column has on the k-th kept line, in file
\* order.
C10_UniformRows ==
    JustLoaded =>
        /\ \A n, m \in DOMAIN data_dict :
              data_dict[n].ndim = data_dict[m].ndim /\ Len(data_dict[n].v) = Len(data_dict[m].v)
        /\ is_history =>
              LET kept == Ascending(NotSuperseded(RawSteps))
              IN  \A n \in DOMAIN data_dict :
                     data_dict[n].v = Pick(RawColumn(Pos(content.cnames, n)), kept)

\* a history lost lines, and its other column lost the same ones
C10_Witness ==
    /\ JustLoaded /\ is_history
    /\ content.cnames = <<"model_number", "star_age">>
    /\ RawCount = 3
    /\ data_dict["model_number"].v = <<RawSteps[1], RawSteps[3]>>
    /\ data_dict["star_age"].v = <<LineTag(1, 2), LineTag(3, 2)>>

=============================================================================
